---- MODULE Spec2Model ----
(***************************************************************************)
(* Model of the multi-task order-status monitor (xiaomi_monitor.py):       *)
(* MemoryStorage, SingleTaskMonitor and MultiTaskMonitor, together with    *)
(* the process-wide default scheduler of the `schedule` package that every *)
(* monitor thread registers its job with and polls.                        *)
(*                                                                         *)
(* Eight specifications share the definitions:                             *)
(*   SpecStore  a MemoryStorage driven by calls of its methods;            *)
(*   SpecTask   the program run with a single enabled task (as in the      *)
(*              default configuration): one monitor thread;                *)
(*   Spec       the program run with any subset of NumTasks tasks enabled, *)
(*              any subset of these lacking a required field;              *)
(*   SpecFault  SpecTask with a notifications entry that makes the         *)
(*              dispatch raise inside the cycle;                           *)
(*   SpecPair   the program run with any subset of NumPair tasks enabled;  *)
(*   SpecNotify one call of notify_status_change, for every notifications  *)
(*              dict and every behaviour of the SMTP server;               *)
(*   SpecFetch  get_current_status, for every response of the service;     *)
(*   SpecEditor the notification editor of config_manager.py run on a task  *)
(*              as add_task creates it.                                     *)
(***************************************************************************)
EXTENDS Integers, Sequences, FiniteSets, TLC

\* ------------------------------------------------------------------ bounds
NumTasks == 3
\* cycles (fetches of check_status_change) observed in a run of Spec / SpecTask
MaxFetches == 3
MaxFetchesTask == 5
\* tasks and cycles of the small system SpecPair
NumPair == 2
MaxFetchesPair == 2
\* MemoryStorage.max_history_size is 1000 (xiaomi_monitor.py:37); the model
\* scales it down so that eviction happens within the observed run.
CapSys == 2
CapTask == 8
MaxCap == 3
\* save_status / clear_history calls observed in a run of SpecStore
MaxStoreOps == 5
\* entries of a recipient list (receivers, qq_emails, phone_numbers) in SpecNotify
MaxRecipients == 2

Tasks == 1..NumTasks
\* values of the upstream field buyCarInfo.vid
Vids == {"A", "B", "C"}
VidsSys == {"A", "B"}

\* Python's None (no status dict / no statistics yet)
None == [tag |-> "None"]

\* ------------------------------------------------------------- MemoryStorage
VARIABLES
  max_history_size,   \* MemoryStorage.max_history_size
  status_history,     \* MemoryStorage.status_history: task_id -> list of records
  clock,              \* per task: the number of records saved so far (check_time)
  appendLog,          \* history variable: per task, every record saved since the last clear
  storeOps            \* SpecStore: method calls made so far

\* seq[-n:] as Python computes it: a start of -0 is 0 (the whole list), a
\* negative start counts from the end and is clamped to the front.
PySuffix(seq, n) ==
  LET len   == Len(seq)
      start == IF -n < 0 THEN (IF len - n < 0 THEN 0 ELSE len - n)
                         ELSE (IF -n > len THEN len ELSE -n)
  IN  SubSeq(seq, start + 1, len)

\* the list a defaultdict(list) holds for a key, for .get(task_id, [])
Hist(h, t) == IF t \in DOMAIN h THEN h[t] ELSE <<>>

\* task_config['order_id'] of task t
OrderId(t) == t

\* the dict get_current_status returns on success
StatusDict(t, vid) ==
  [order_status |-> vid, order_status_name |-> vid, order_id |-> OrderId(t), task_id |-> t]

\* a record that loses the change flag
StatusRecordUnflagged(status, time, change_detected) ==
  [order_id |-> status.order_id,
   order_status |-> status.order_status,
   order_status_name |-> status.order_status_name,
   check_time |-> time,
   change_detected |-> FALSE]

\* the status_record dict save_status builds
StatusRecord(status, time, change_detected) ==
  [order_id |-> status.order_id,
   order_status |-> status.order_status,
   order_status_name |-> status.order_status_name,
   check_time |-> time,
   change_detected |-> change_detected]

\* self.status_history[task_id].append(status_record), on a defaultdict
Appended(h, t, rec) ==
  [k \in DOMAIN h \cup {t} |-> IF k = t THEN Append(Hist(h, t), rec) ELSE h[k]]

\* a truncation that keeps the oldest records
TruncatedKeepOldest(list, cap) == IF Len(list) > cap THEN SubSeq(list, 1, cap) ELSE list

\* if len(list) > max_history_size: list = list[-max_history_size:]
Truncated(list, cap) == IF Len(list) > cap THEN PySuffix(list, cap) ELSE list

\* MemoryStorage.save_status, run without interruption
SaveStatus(h, cap, t, status, time, change_detected) ==
  LET a == Appended(h, t, StatusRecord(status, time, change_detected))
  IN  [a EXCEPT ![t] = Truncated(a[t], cap)]

\* MemoryStorage.get_latest_status
get_latest_status(h, t) ==
  LET history == Hist(h, t) IN IF history # <<>> THEN history[Len(history)] ELSE None

\* MemoryStorage.get_status_history
get_status_history(h, t, limit) ==
  LET history == Hist(h, t) IN IF history # <<>> THEN PySuffix(history, limit) ELSE <<>>

\* MemoryStorage.clear_history(task_id): the defaultdict creates the key
ClearTask(h, t) == [k \in DOMAIN h \cup {t} |-> IF k = t THEN <<>> ELSE h[k]]

\* MemoryStorage.clear_history(None)
ClearAll(h) == [k \in {} |-> <<>>]

\* the empty string, the one task_id that `if task_id:` takes for false
EmptyId == 0

\* MemoryStorage.clear_history(task_id) for a task_id that is a string
clear_history(h, task_id) == IF task_id # EmptyId THEN ClearTask(h, task_id) ELSE ClearAll(h)

RECURSIVE SumLen(_, _)
SumLen(h, ks) ==
  IF ks = {} THEN 0
  ELSE LET k == CHOOSE x \in ks : TRUE IN Len(h[k]) + SumLen(h, ks \ {k})

\* statistics that count only the tasks that have a record
get_statistics_nonempty(h) ==
  [total_tasks |-> Cardinality({k \in DOMAIN h : h[k] # <<>>}),
   total_records |-> SumLen(h, DOMAIN h),
   task_details |-> [k \in DOMAIN h |->
      [record_count |-> Len(h[k]),
       latest_status |-> IF h[k] # <<>> THEN h[k][Len(h[k])] ELSE None]]]

\* MemoryStorage.get_statistics
get_statistics(h) ==
  [total_tasks |-> Cardinality(DOMAIN h),
   total_records |-> SumLen(h, DOMAIN h),
   task_details |-> [k \in DOMAIN h |->
      [record_count |-> Len(h[k]),
       latest_status |-> IF h[k] # <<>> THEN h[k][Len(h[k])] ELSE None]]]

EmptyStore == [k \in {} |-> <<>>]

\* --------------------------------------------------- responses of the endpoint
\* what requests.post yields: a RequestException, or a response with an HTTP
\* status, and a JSON body with 'code', possibly 'data', and data.buyCarInfo.vid
Resp(exc, status_code, code, has_data, vid) ==
  [exc |-> exc, status_code |-> status_code, code |-> code, has_data |-> has_data, vid |-> vid]

FailedResponses ==
  { Resp(TRUE, 0, 0, FALSE, "A"),      \* connection refused, timeout, DNS
    Resp(FALSE, 500, 0, TRUE, "A"),    \* non-200 status
    Resp(FALSE, 200, 1, TRUE, "A"),    \* application-level error code
    Resp(FALSE, 200, 0, FALSE, "A") }  \* code 0 without 'data'

OkResponses(vs) == { Resp(FALSE, 200, 0, TRUE, v) : v \in vs }

Responses(vs) == FailedResponses \cup OkResponses(vs)

\* a fetch that takes every 200 response for a status, whatever its 'code'
GetCurrentStatusIgnoresCode(t, resp) ==
  IF resp.exc THEN None
  ELSE IF resp.status_code = 200 THEN StatusDict(t, resp.vid) ELSE None

\* SingleTaskMonitor.get_current_status: the status dict, or None
GetCurrentStatus(t, resp) ==
  IF resp.exc THEN None
  ELSE IF resp.status_code = 200
       THEN IF resp.code = 0 /\ resp.has_data THEN StatusDict(t, resp.vid) ELSE None
       ELSE None

\* a comparison of the new status with itself
TransitionSelfCompare(last, current) ==
  IF last = None THEN "Initial"
  ELSE IF current.order_status # current.order_status
          \/ current.order_status_name # current.order_status_name
       THEN "Changed" ELSE "Unchanged"

\* a detector without the first-status branch
TransitionNoInitial(last, current) ==
  IF last = None THEN "Changed"
  ELSE IF current.order_status # last.order_status
          \/ current.order_status_name # last.order_status_name
       THEN "Changed" ELSE "Unchanged"

\* the branch check_status_change takes after saving the fetched status
Transition(last, current) ==
  IF last = None THEN "Initial"
  ELSE IF current.order_status # last.order_status
          \/ current.order_status_name # last.order_status_name
       THEN "Changed" ELSE "Unchanged"

\* ---------------------------------------------------------------- the program
VARIABLES
  enabled,      \* MultiTaskMonitor.enabled_tasks (their task ids)
  monitors,     \* MultiTaskMonitor.monitors: the tasks whose monitor is constructed
  last_status,  \* SingleTaskMonitor.last_status of each task
  mpc,          \* the main thread: "init", "initfetch", "spawn", "join", "exit"
  mtask,        \* the task whose monitor the main thread is constructing
  stats,        \* the task count (total_tasks) close() logged last, or None
  reports,      \* the number of times close() ran
  aliveAtReport,\* history variable: the monitor threads not yet ended when close() ran last
  jobs,         \* schedule.default_scheduler.jobs: the tasks whose job is registered
  pc,           \* thread Monitor-t: "unstarted", "started", "cycle", "loop" (run_pending/sleep), "killed"
  job,          \* the task whose monitor_task the thread is executing
  step,         \* the thread's place in check_status_change
  cur,          \* the thread's current_status
  tmp,          \* the thread's slice of the history, about to be assigned
  budget,       \* cycles (the fetches of check_status_change) left in the observed run
  vocab,        \* the vid values the endpoint reports in the observed run
  dispatches,   \* per task: the (old, new) pairs notify_status_change was called with
  lastOk,       \* history variable: per task, the status of its last successful fetch
  prevOk,       \* history variable: per thread, lastOk of its task before its fetch returned
  okCount,      \* history variable: per task, the number of successful fetches
  baseline0,    \* history variable: per task, the result of the construction-time fetch
  fetchLog,     \* history variable: per task, the result of each cycle's fetch
  stopped,      \* history variable: the operator's stop request (KeyboardInterrupt) arrived
  stopMid3      \* history variable: three tasks were enabled and the threads of all three
                \* were in a cycle when the stop request arrived

\* the configuration as loaded, and what monitor_task caught
VARIABLES
  incomplete,        \* the enabled tasks whose dict lacks order_id, user_id, headers or url
  notifications_ok,  \* per task: its 'notifications' entries are dicts and lists of dicts,
                     \* as the configuration tools write them
  caught             \* history variable: per task, the exceptions monitor_task caught and logged

\* one call of notify_status_change, and one call of get_current_status
VARIABLES
  ncfg,     \* SpecNotify: self.notifications of the task
  npc,      \* SpecNotify: the channel notify_status_change is about to call, "done", or "idle"
  nout,     \* SpecNotify: per channel, how its send_*_notification ended
  nnet,     \* SpecNotify: per channel, what the SMTP server did when the channel used it
  nto,      \* SpecNotify: per channel, the entries of its list the send was addressed to
  nlog,     \* SpecNotify: per channel, the log lines its send_*_notification wrote
  fresp,    \* SpecFetch: the response requests.post yields
  fresult   \* SpecFetch: what get_current_status returned, or "pending"

\* a caller of the store
VARIABLES
  query     \* SpecStore: the last call made on the store since its last save, and
            \* what it returned

\* the configuration editor
VARIABLES
  ecfg      \* SpecEditor: the 'notifications' dict of the task the editor works on

callVars == <<incomplete, notifications_ok, ncfg, npc, nout, nnet, nto, nlog, fresp, fresult, ecfg>>
sideVars == <<callVars, query>>
storeVars == <<max_history_size, status_history, clock, appendLog, storeOps>>
mainVars == <<enabled, monitors, mpc, mtask, stats, reports, aliveAtReport>>
schedVars == <<jobs>>
threadVars == <<pc, job, step, cur, tmp>>
ghostVars == <<lastOk, prevOk, okCount, baseline0, fetchLog, stopped, stopMid3>>
vars == <<storeVars, mainVars, schedVars, threadVars, ghostVars, last_status, budget, vocab, dispatches,
          sideVars, caught>>

Min(S) == CHOOSE x \in S : \A y \in S : x <= y

InitStorage(cap) ==
  /\ max_history_size = cap
  /\ status_history = EmptyStore
  /\ clock = [t \in Tasks |-> 0]
  /\ appendLog = [t \in Tasks |-> <<>>]
  /\ storeOps = 0

InitMonitor(en, fetches, vs) ==
  /\ enabled = en
  /\ vocab = vs
  /\ budget = fetches
  /\ monitors = {}
  /\ last_status = [t \in Tasks |-> None]
  /\ mpc = "init"
  /\ mtask = 0
  /\ stats = None
  /\ reports = 0
  /\ aliveAtReport = {}
  /\ jobs = {}
  /\ pc = [t \in Tasks |-> "unstarted"]
  /\ job = [t \in Tasks |-> 0]
  /\ step = [t \in Tasks |-> "-"]
  /\ cur = [t \in Tasks |-> None]
  /\ tmp = [t \in Tasks |-> <<>>]
  /\ dispatches = [t \in Tasks |-> <<>>]
  /\ lastOk = [t \in Tasks |-> None]
  /\ prevOk = [t \in Tasks |-> None]
  /\ okCount = [t \in Tasks |-> 0]
  /\ baseline0 = [t \in Tasks |-> None]
  /\ fetchLog = [t \in Tasks |-> <<>>]
  /\ stopped = FALSE
  /\ stopMid3 = FALSE

\* the loaded configuration
InitConfig(inc, nok) ==
  /\ incomplete = inc
  /\ notifications_ok = nok
  /\ caught = [t \in Tasks |-> 0]

Pending == [tag |-> "pending"]

\* no call of notify_status_change is being followed
InitNoNotify ==
  /\ ncfg = None
  /\ npc = "idle"
  /\ nout = [c \in {"email", "qq", "sms"} |-> "-"]
  /\ nnet = [c \in {"email", "qq", "sms"} |-> "-"]
  /\ nto = [c \in {"email", "qq", "sms"} |-> <<>>]
  /\ nlog = [c \in {"email", "qq", "sms"} |-> 0]

\* no call of get_current_status is being followed
InitNoFetch ==
  /\ fresp = None
  /\ fresult = Pending

\* no call of a MemoryStorage method is being followed
NoQuery == [op |-> "none"]

InitNoQuery == query = NoQuery

\* no task is open in the configuration editor
InitNoEdit == ecfg = None

InitNoCall == InitNoNotify /\ InitNoFetch /\ InitNoQuery /\ InitNoEdit

\* the program started on a configuration with any subset of the tasks
\* enabled, any of them lacking a required field
Init ==
  \E en \in SUBSET Tasks : \E inc \in SUBSET en :
    /\ InitStorage(CapSys) /\ InitMonitor(en, MaxFetches, VidsSys)
    /\ InitConfig(inc, [t \in Tasks |-> TRUE]) /\ InitNoCall

\* the program started on a configuration with one enabled task
InitTask ==
  /\ InitStorage(CapTask) /\ InitMonitor({1}, MaxFetchesTask, Vids)
  /\ InitConfig({}, [t \in Tasks |-> TRUE]) /\ InitNoCall

\* ... whose notifications may be ill-shaped
InitFault ==
  \E ok \in BOOLEAN :
    /\ InitStorage(CapTask) /\ InitMonitor({1}, MaxFetchesTask, Vids)
    /\ InitConfig({}, [t \in Tasks |-> ok]) /\ InitNoCall

\* the program started on a configuration of NumPair tasks
InitPair ==
  \E en \in SUBSET (1..NumPair) : \E inc \in SUBSET en :
    /\ InitStorage(CapSys) /\ InitMonitor(en, MaxFetchesPair, VidsSys)
    /\ InitConfig(inc, [t \in Tasks |-> TRUE]) /\ InitNoCall

\* ------------------------------------------------------------ the main thread
\* the statistics close() logs, and the end of the process: main() returns and
\* takes the daemon threads, the monitors and the store with it. The main
\* thread only logs between the two, so no step of a monitor thread is put
\* between them. n is the number of close() calls on the way out.
CloseAndExit(n) ==
  /\ UNCHANGED sideVars
  /\ caught' = [t \in Tasks |-> 0]
  /\ stats' = IF n > 0 THEN get_statistics(status_history).total_tasks ELSE stats
  /\ reports' = n
  /\ aliveAtReport' = IF n > 0 THEN {t \in Tasks : pc[t] \in {"started", "cycle", "loop"}} ELSE {}
  /\ mpc' = "exit"
  /\ mtask' = 0
  /\ pc' = [t \in Tasks |-> IF pc[t] = "unstarted" THEN "unstarted" ELSE "killed"]
  /\ job' = [t \in Tasks |-> 0]
  /\ step' = [t \in Tasks |-> "-"]
  /\ cur' = [t \in Tasks |-> None]
  /\ tmp' = [t \in Tasks |-> <<>>]
  /\ jobs' = {}
  /\ monitors' = {}
  /\ last_status' = [t \in Tasks |-> None]
  /\ status_history' = EmptyStore
  /\ clock' = [t \in Tasks |-> 0]
  /\ dispatches' = [t \in Tasks |-> <<>>]
  /\ budget' = 0
  /\ appendLog' = [t \in Tasks |-> <<>>]
  /\ lastOk' = [t \in Tasks |-> None]
  /\ prevOk' = [t \in Tasks |-> None]
  /\ okCount' = [t \in Tasks |-> 0]
  /\ baseline0' = [t \in Tasks |-> None]
  /\ fetchLog' = [t \in Tasks |-> <<>>]
  /\ UNCHANGED <<max_history_size, storeOps, enabled, vocab>>

\* MultiTaskMonitor.__init__, one task of the loop: SingleTaskMonitor.__init__
\* issues the construction-time request and waits for it
ConstructBegin(t) ==
  /\ mpc = "init"
  /\ enabled \ monitors # {}
  /\ t = Min(enabled \ monitors)
  /\ IF t \in incomplete
     THEN \* task_config['order_id'] (or user_id, headers, url) raises KeyError; main()
          \* logs it and returns, and no monitor exists for its finally to close
          CloseAndExit(0) /\ UNCHANGED <<stopped, stopMid3>>
     ELSE /\ mpc' = "initfetch"
          /\ mtask' = t
          /\ UNCHANGED <<sideVars, caught>>
          /\ UNCHANGED <<storeVars, enabled, monitors, stats, reports, aliveAtReport, schedVars,
                         threadVars, ghostVars, last_status, budget, vocab, dispatches>>

\* ... the request returns: self.last_status = self.get_current_status()
ConstructEnd(resp) ==
  /\ UNCHANGED <<sideVars, caught>>
  /\ mpc = "initfetch"
  /\ LET s == GetCurrentStatus(mtask, resp) IN
       /\ last_status' = [last_status EXCEPT ![mtask] = s]
       /\ baseline0' = [baseline0 EXCEPT ![mtask] = s]
       /\ lastOk' = [lastOk EXCEPT ![mtask] = s]
       /\ okCount' = [okCount EXCEPT ![mtask] = IF s # None THEN 1 ELSE 0]
  /\ monitors' = monitors \cup {mtask}
  /\ mpc' = "init"
  /\ mtask' = 0
  /\ UNCHANGED <<storeVars, enabled, stats, reports, aliveAtReport, schedVars, threadVars, prevOk,
                 fetchLog, stopped, stopMid3, budget, vocab, dispatches>>

\* a start_monitoring without the check for an empty self.monitors
StartMonitoringWaits ==
  /\ mpc = "init"
  /\ monitors = enabled
  /\ mpc' = IF monitors = {} THEN "join" ELSE "spawn"
  /\ UNCHANGED <<sideVars, caught>>
  /\ UNCHANGED <<storeVars, enabled, monitors, mtask, stats, reports, aliveAtReport,
                 schedVars, threadVars, ghostVars, last_status, budget, vocab, dispatches>>

\* MultiTaskMonitor.start_monitoring up to the thread loop; with no monitor it
\* returns and main()'s finally calls close()
StartMonitoring ==
  /\ mpc = "init"
  /\ monitors = enabled
  /\ IF monitors = {}
     THEN CloseAndExit(1) /\ UNCHANGED <<stopped, stopMid3>>
     ELSE /\ mpc' = "spawn"
          /\ UNCHANGED <<sideVars, caught>>
          /\ UNCHANGED <<storeVars, enabled, monitors, mtask, stats, reports, aliveAtReport,
                         schedVars, threadVars, ghostVars, last_status, budget, vocab, dispatches>>

\* threading.Thread(target=monitor.start_monitoring, daemon=True).start(), in
\* the order of self.monitors; after the last one the main thread joins
Spawn(t) ==
  /\ UNCHANGED <<sideVars, caught>>
  /\ mpc = "spawn"
  /\ t = Min({u \in monitors : pc[u] = "unstarted"})
  /\ pc' = [pc EXCEPT ![t] = "started"]
  /\ mpc' = IF \A u \in monitors \ {t} : pc[u] # "unstarted" THEN "join" ELSE "spawn"
  /\ UNCHANGED <<storeVars, enabled, monitors, mtask, stats, reports, aliveAtReport, schedVars,
                 job, step, cur, tmp, ghostVars, last_status, budget, vocab, dispatches>>

\* KeyboardInterrupt in the main thread (the operator's stop request). In
\* __init__ it leaves main() without a monitor to close; in the thread loop
\* main()'s finally closes once; in join() start_monitoring's finally closes and
\* main()'s finally closes again. No monitor thread is told to stop or joined.
Interrupt ==
  /\ mpc \in {"init", "initfetch", "spawn", "join"}
  /\ stopped' = TRUE
  /\ stopMid3' = (Cardinality(enabled) = 3 /\ \A th \in enabled : pc[th] = "cycle")
  /\ CloseAndExit(CASE mpc = "join" -> 2 [] mpc = "spawn" -> 1 [] OTHER -> 0)

\* ------------------------------------------------- the monitor threads
\* the part of the state a step inside check_status_change never touches
cycleFrame == <<enabled, monitors, mpc, mtask, stats, reports, aliveAtReport, jobs, stopped, stopMid3, budget, vocab,
                max_history_size, storeOps, baseline0>>

\* SingleTaskMonitor.start_monitoring up to its first request: the job is added
\* to the default scheduler of the schedule module, which all threads share,
\* and monitor_task() is called at once
Register(th) ==
  /\ UNCHANGED <<sideVars, caught>>
  /\ pc[th] = "started"
  /\ budget > 0
  /\ jobs' = jobs \cup {th}
  /\ pc' = [pc EXCEPT ![th] = "cycle"]
  /\ job' = [job EXCEPT ![th] = th]
  /\ step' = [step EXCEPT ![th] = "fetch"]
  /\ budget' = budget - 1
  /\ UNCHANGED <<storeVars, mainVars, cur, tmp, ghostVars, last_status, vocab, dispatches>>

\* the while loop of start_monitoring: schedule.run_pending() runs the jobs of
\* the shared scheduler that are due, whichever thread registered them, and
\* job.run() calls the job's monitor_task. Time is not modelled: the next_run of
\* a registered job may have passed at any moment, and it stays passed until a
\* run of the job returns.
RunPending(th, j) ==
  /\ UNCHANGED <<sideVars, caught>>
  /\ pc[th] = "loop"
  /\ j \in jobs
  /\ budget > 0
  /\ pc' = [pc EXCEPT ![th] = "cycle"]
  /\ job' = [job EXCEPT ![th] = j]
  /\ step' = [step EXCEPT ![th] = "fetch"]
  /\ budget' = budget - 1
  /\ UNCHANGED <<storeVars, mainVars, schedVars, cur, tmp, ghostVars, last_status, vocab, dispatches>>

\* the thread's variables when its monitor_task has returned and it is back in
\* the while loop
Returned(th) ==
  /\ pc' = [pc EXCEPT ![th] = "loop"]
  /\ job' = [job EXCEPT ![th] = 0]
  /\ step' = [step EXCEPT ![th] = "-"]
  /\ cur' = [cur EXCEPT ![th] = None]
  /\ prevOk' = [prevOk EXCEPT ![th] = None]

\* the thread's variables when it goes on to place s of check_status_change
Goto(th, s) ==
  /\ step' = [step EXCEPT ![th] = s]
  /\ UNCHANGED <<pc, job, cur, prevOk>>

\* a failed fetch that wipes the baseline
FetchReturnOverwrites(th, resp) ==
  /\ UNCHANGED <<sideVars, caught>>
  /\ pc[th] = "cycle"
  /\ step[th] = "fetch"
  /\ LET j == job[th]
         s == GetCurrentStatus(j, resp)
     IN  /\ fetchLog' = [fetchLog EXCEPT ![j] =
                           Append(@, IF s = None THEN "fail" ELSE s.order_status)]
         /\ IF s = None
            THEN /\ Returned(th)
                 /\ last_status' = [last_status EXCEPT ![j] = None]
                 /\ UNCHANGED <<lastOk, okCount>>
            ELSE /\ pc' = pc /\ job' = job
                 /\ cur' = [cur EXCEPT ![th] = s]
                 /\ step' = [step EXCEPT ![th] = "save1"]
                 /\ lastOk' = [lastOk EXCEPT ![j] = s]
                 /\ prevOk' = [prevOk EXCEPT ![th] = lastOk[j]]
                 /\ okCount' = [okCount EXCEPT ![j] = @ + 1]
                 /\ last_status' = last_status
  /\ UNCHANGED <<cycleFrame, status_history, clock, appendLog, tmp, dispatches>>

\* a cycle that goes to the comparison without saving the fetched status
FetchReturnNoSave(th, resp) ==
  /\ UNCHANGED <<sideVars, caught>>
  /\ pc[th] = "cycle"
  /\ step[th] = "fetch"
  /\ LET j == job[th]
         s == GetCurrentStatus(j, resp)
     IN  /\ fetchLog' = [fetchLog EXCEPT ![j] =
                           Append(@, IF s = None THEN "fail" ELSE s.order_status)]
         /\ IF s = None
            THEN /\ Returned(th)
                 /\ UNCHANGED <<lastOk, okCount>>
            ELSE /\ pc' = pc /\ job' = job
                 /\ cur' = [cur EXCEPT ![th] = s]
                 /\ step' = [step EXCEPT ![th] = "detect"]
                 /\ lastOk' = [lastOk EXCEPT ![j] = s]
                 /\ prevOk' = [prevOk EXCEPT ![th] = lastOk[j]]
                 /\ okCount' = [okCount EXCEPT ![j] = @ + 1]
  /\ UNCHANGED <<cycleFrame, status_history, clock, appendLog, tmp, last_status, dispatches>>

\* a fetch that issues its request again when it failed
FetchReturnRetries(th, resp) ==
  /\ UNCHANGED <<sideVars, caught>>
  /\ pc[th] = "cycle"
  /\ step[th] = "fetch"
  /\ LET j == job[th]
         s == GetCurrentStatus(j, resp)
     IN  /\ fetchLog' = [fetchLog EXCEPT ![j] =
                           Append(@, IF s = None THEN "fail" ELSE s.order_status)]
         /\ IF s = None
            THEN UNCHANGED <<pc, job, step, cur, prevOk, lastOk, okCount>>
            ELSE /\ pc' = pc /\ job' = job
                 /\ cur' = [cur EXCEPT ![th] = s]
                 /\ step' = [step EXCEPT ![th] = "save1"]
                 /\ lastOk' = [lastOk EXCEPT ![j] = s]
                 /\ prevOk' = [prevOk EXCEPT ![th] = lastOk[j]]
                 /\ okCount' = [okCount EXCEPT ![j] = @ + 1]
  /\ UNCHANGED <<cycleFrame, status_history, clock, appendLog, tmp, last_status, dispatches>>

\* check_status_change: get_current_status() returns. None: return False
FetchReturn(th, resp) ==
  /\ UNCHANGED <<sideVars, caught>>
  /\ pc[th] = "cycle"
  /\ step[th] = "fetch"
  /\ LET j == job[th]
         s == GetCurrentStatus(j, resp)
     IN  /\ fetchLog' = [fetchLog EXCEPT ![j] =
                           Append(@, IF s = None THEN "fail" ELSE s.order_status)]
         /\ IF s = None
            THEN /\ Returned(th)
                 /\ UNCHANGED <<lastOk, okCount>>
            ELSE /\ pc' = pc /\ job' = job
                 /\ cur' = [cur EXCEPT ![th] = s]
                 /\ step' = [step EXCEPT ![th] = "save1"]
                 /\ lastOk' = [lastOk EXCEPT ![j] = s]
                 /\ prevOk' = [prevOk EXCEPT ![th] = lastOk[j]]
                 /\ okCount' = [okCount EXCEPT ![j] = @ + 1]
  /\ UNCHANGED <<cycleFrame, status_history, clock, appendLog, tmp, last_status, dispatches>>

\* self.storage.save_status(task_id, current_status, False / True): the append,
\* and the slice that is about to replace an over-long list
Save(th) ==
  /\ UNCHANGED <<sideVars, caught>>
  /\ pc[th] = "cycle"
  /\ step[th] \in {"save1", "save2"}
  /\ LET j    == job[th]
         rec  == StatusRecord(cur[th], clock[j] + 1, step[th] = "save2")
         a    == Appended(status_history, j, rec)
         kept == Truncated(a[j], max_history_size)
     IN  /\ status_history' = a
         /\ clock' = [clock EXCEPT ![j] = @ + 1]
         /\ appendLog' = [appendLog EXCEPT ![j] = Append(@, rec)]
         /\ IF kept # a[j]
            THEN /\ tmp' = [tmp EXCEPT ![th] = kept]
                 /\ Goto(th, IF step[th] = "save1" THEN "trunc1" ELSE "trunc2")
            ELSE /\ tmp' = tmp
                 /\ Goto(th, IF step[th] = "save1" THEN "detect" ELSE "notify")
  /\ UNCHANGED <<cycleFrame, lastOk, okCount, fetchLog, last_status, dispatches>>

\* ... self.status_history[task_id] = <the slice>
Truncate(th) ==
  /\ UNCHANGED <<sideVars, caught>>
  /\ pc[th] = "cycle"
  /\ step[th] \in {"trunc1", "trunc2"}
  /\ status_history' = [status_history EXCEPT ![job[th]] = tmp[th]]
  /\ tmp' = [tmp EXCEPT ![th] = <<>>]
  /\ Goto(th, IF step[th] = "trunc1" THEN "detect" ELSE "notify")
  /\ UNCHANGED <<cycleFrame, clock, appendLog, lastOk, okCount, fetchLog, last_status, dispatches>>

\* a change that is notified without its change record
DetectSkipsChangeRecord(th) ==
  /\ UNCHANGED <<sideVars, caught>>
  /\ pc[th] = "cycle"
  /\ step[th] = "detect"
  /\ LET kind == Transition(last_status[job[th]], cur[th]) IN
       CASE kind = "Initial" -> Goto(th, "init")
         [] kind = "Changed" -> Goto(th, "notify")
         [] OTHER -> Returned(th)
  /\ UNCHANGED <<cycleFrame, status_history, clock, appendLog, tmp, lastOk, okCount,
                 fetchLog, last_status, dispatches>>

\* the two ifs of check_status_change on self.last_status; no change: return False
Detect(th) ==
  /\ UNCHANGED <<sideVars, caught>>
  /\ pc[th] = "cycle"
  /\ step[th] = "detect"
  /\ LET kind == Transition(last_status[job[th]], cur[th]) IN
       CASE kind = "Initial" -> Goto(th, "init")
         [] kind = "Changed" -> Goto(th, "save2")
         [] OTHER -> Returned(th)
  /\ UNCHANGED <<cycleFrame, status_history, clock, appendLog, tmp, lastOk, okCount,
                 fetchLog, last_status, dispatches>>

\* first status: self.last_status = current_status; return False
SetInitial(th) ==
  /\ UNCHANGED <<sideVars, caught>>
  /\ pc[th] = "cycle"
  /\ step[th] = "init"
  /\ last_status' = [last_status EXCEPT ![job[th]] = cur[th]]
  /\ Returned(th)
  /\ UNCHANGED <<cycleFrame, status_history, clock, appendLog, tmp, lastOk, okCount,
                 fetchLog, dispatches>>

\* a monitor_task without its try/except: the exception ends the thread
NotifyUncaught(th) ==
  /\ pc[th] = "cycle"
  /\ step[th] = "notify"
  /\ dispatches' = [dispatches EXCEPT ![job[th]] = Append(@, <<last_status[job[th]], cur[th]>>)]
  /\ IF notifications_ok[job[th]]
     THEN Goto(th, "setlast") /\ UNCHANGED caught
     ELSE /\ pc' = [pc EXCEPT ![th] = "dead"]
          /\ job' = [job EXCEPT ![th] = 0]
          /\ step' = [step EXCEPT ![th] = "-"]
          /\ cur' = [cur EXCEPT ![th] = None]
          /\ prevOk' = [prevOk EXCEPT ![th] = None]
          /\ caught' = [caught EXCEPT ![job[th]] = @ + 1]
  /\ UNCHANGED sideVars
  /\ UNCHANGED <<cycleFrame, status_history, clock, appendLog, tmp, lastOk, okCount,
                 fetchLog, last_status>>

\* a change whose notification is not made
NotifySkipped(th) ==
  /\ pc[th] = "cycle"
  /\ step[th] = "notify"
  /\ Goto(th, "setlast")
  /\ UNCHANGED <<sideVars, caught>>
  /\ UNCHANGED <<cycleFrame, status_history, clock, appendLog, tmp, lastOk, okCount,
                 fetchLog, last_status, dispatches>>

\* self.notify_status_change(self.last_status, current_status)
Notify(th) ==
  /\ pc[th] = "cycle"
  /\ step[th] = "notify"
  /\ dispatches' = [dispatches EXCEPT ![job[th]] = Append(@, <<last_status[job[th]], cur[th]>>)]
  /\ IF notifications_ok[job[th]]
     THEN Goto(th, "setlast") /\ UNCHANGED caught
     ELSE \* e.g. "email": null: .get on it raises AttributeError outside the try of
          \* send_email_notification; monitor_task's except logs it and returns
          /\ Returned(th)
          /\ caught' = [caught EXCEPT ![job[th]] = @ + 1]
  /\ UNCHANGED sideVars
  /\ UNCHANGED <<cycleFrame, status_history, clock, appendLog, tmp, lastOk, okCount,
                 fetchLog, last_status>>

\* a changed status that is notified but not kept as the baseline
SetLastSkipped(th) ==
  /\ UNCHANGED <<sideVars, caught>>
  /\ pc[th] = "cycle"
  /\ step[th] = "setlast"
  /\ Returned(th)
  /\ UNCHANGED <<cycleFrame, status_history, clock, appendLog, tmp, lastOk, okCount,
                 fetchLog, last_status, dispatches>>

\* a last_status that belongs to the class: every monitor shares it
SetLastShared(th) ==
  /\ UNCHANGED <<sideVars, caught>>
  /\ pc[th] = "cycle"
  /\ step[th] = "setlast"
  /\ last_status' = [t \in Tasks |-> cur[th]]
  /\ Returned(th)
  /\ UNCHANGED <<cycleFrame, status_history, clock, appendLog, tmp, lastOk, okCount,
                 fetchLog, dispatches>>

\* self.last_status = current_status; return True
SetLast(th) ==
  /\ UNCHANGED <<sideVars, caught>>
  /\ pc[th] = "cycle"
  /\ step[th] = "setlast"
  /\ last_status' = [last_status EXCEPT ![job[th]] = cur[th]]
  /\ Returned(th)
  /\ UNCHANGED <<cycleFrame, status_history, clock, appendLog, tmp, lastOk, okCount,
                 fetchLog, dispatches>>

Next ==
  \/ \E t \in Tasks : ConstructBegin(t)
  \/ \E resp \in Responses(vocab) : ConstructEnd(resp)
  \/ StartMonitoring
  \/ \E t \in Tasks : Spawn(t)
  \/ Interrupt
  \/ \E th \in Tasks : Register(th)
  \/ \E th \in Tasks, j \in Tasks : RunPending(th, j)
  \/ \E th \in Tasks, resp \in Responses(vocab) : FetchReturn(th, resp)
  \/ \E th \in Tasks : Save(th)
  \/ \E th \in Tasks : Truncate(th)
  \/ \E th \in Tasks : Detect(th)
  \/ \E th \in Tasks : SetInitial(th)
  \/ \E th \in Tasks : Notify(th)
  \/ \E th \in Tasks : SetLast(th)

Spec == Init /\ [][Next]_vars

SpecTask == InitTask /\ [][Next]_vars

SpecFault == InitFault /\ [][Next]_vars

SpecPair == InitPair /\ [][Next]_vars

\* ------------------------------------------- a MemoryStorage driven by calls
StoreTasks == {1, 2}
StoreVids == {"A", "B"}
\* the task_id arguments of clear_history: a task's id, or the empty string
ClearIds == StoreTasks \cup {EmptyId}
\* the limit arguments of get_status_history
Limits == 0..MaxCap

programFrame == <<max_history_size, mainVars, schedVars, threadVars, ghostVars, last_status,
                  budget, vocab, dispatches>>

\* a MemoryStorage of any capacity up to MaxCap, and no monitor
InitStore ==
  \E cap \in 1..MaxCap :
    /\ InitStorage(cap) /\ InitMonitor({}, 0, {})
    /\ InitConfig({}, [t \in Tasks |-> TRUE]) /\ InitNoCall

\* storage.save_status(task_id, status_data, change_detected)
StoreSave(t, v, change_detected) ==
  /\ UNCHANGED <<callVars, caught>>
  /\ query' = NoQuery
  /\ storeOps < MaxStoreOps
  /\ status_history' = SaveStatus(status_history, max_history_size, t, StatusDict(t, v),
                                  clock[t] + 1, change_detected)
  /\ clock' = [clock EXCEPT ![t] = @ + 1]
  /\ appendLog' = [appendLog EXCEPT ![t] =
                     Append(@, StatusRecord(StatusDict(t, v), clock[t] + 1, change_detected))]
  /\ storeOps' = storeOps + 1
  /\ UNCHANGED programFrame

\* storage.clear_history(task_id)
StoreClear(t) ==
  /\ UNCHANGED <<callVars, caught>>
  /\ query' = [op |-> "clear", task |-> t]
  /\ storeOps < MaxStoreOps
  /\ status_history' = clear_history(status_history, t)
  /\ appendLog' = [u \in Tasks |-> IF u \in DOMAIN status_history' /\ u # t
                                    THEN appendLog[u] ELSE <<>>]
  /\ storeOps' = storeOps + 1
  /\ UNCHANGED <<clock, programFrame>>

\* storage.clear_history()
StoreClearAll ==
  /\ UNCHANGED <<callVars, caught>>
  /\ query' = [op |-> "clear_all"]
  /\ storeOps < MaxStoreOps
  /\ status_history' = ClearAll(status_history)
  /\ appendLog' = [t \in Tasks |-> <<>>]
  /\ storeOps' = storeOps + 1
  /\ UNCHANGED <<clock, programFrame>>

\* storage.get_status_history(task_id, limit)
StoreRecent(t, limit) ==
  /\ UNCHANGED <<callVars, caught>>
  /\ query' = [op |-> "recent", task |-> t, limit |-> limit,
               result |-> get_status_history(status_history, t, limit)]
  /\ UNCHANGED <<storeVars, programFrame>>

\* storage.get_statistics()
StoreStatistics ==
  /\ UNCHANGED <<callVars, caught>>
  /\ query' = [op |-> "statistics", result |-> get_statistics(status_history)]
  /\ UNCHANGED <<storeVars, programFrame>>

\* a store whose status_history belongs to the class: every instance shares it
StoreConstructShared ==
  /\ UNCHANGED <<callVars, caught>>
  /\ query' = [op |-> "new", dropped |-> get_statistics(status_history).total_records]
  /\ storeOps < MaxStoreOps
  /\ storeOps' = storeOps + 1
  /\ UNCHANGED <<status_history, appendLog, clock, programFrame>>

\* storage = MemoryStorage(): the instance that was in use is dropped, with
\* the records it held
StoreConstruct ==
  /\ UNCHANGED <<callVars, caught>>
  /\ query' = [op |-> "new", dropped |-> get_statistics(status_history).total_records]
  /\ storeOps < MaxStoreOps
  /\ status_history' = EmptyStore
  /\ appendLog' = [t \in Tasks |-> <<>>]
  /\ storeOps' = storeOps + 1
  /\ UNCHANGED <<clock, programFrame>>

NextStore ==
  \/ \E t \in StoreTasks, v \in StoreVids, f \in BOOLEAN : StoreSave(t, v, f)
  \/ \E t \in ClearIds : StoreClear(t)
  \/ StoreClearAll
  \/ \E t \in StoreTasks, limit \in Limits : StoreRecent(t, limit)
  \/ StoreStatistics
  \/ StoreConstruct

SpecStore == InitStore /\ [][NextStore]_vars

\* ------------------------------------------- one call of notify_status_change
Channels == {"email", "qq", "sms"}

\* a recipient list: the 'enabled' flag of each entry
RecipientLists == UNION {[1..n -> BOOLEAN] : n \in 0..MaxRecipients}

\* self.notifications, as the configuration tools write it. smtp_config is
\* absent or empty ("none"), lacks a key the send reads ("partial"), or has
\* sender, password, smtp_server and smtp_port ("complete")
NotificationConfigs ==
  [email_enabled : BOOLEAN, smtp_config : {"none", "partial", "complete"},
   receivers : RecipientLists,
   qq_enabled : BOOLEAN, qq_emails : RecipientLists,
   sms_enabled : BOOLEAN, phone_numbers : RecipientLists]

\* what the SMTP server does with a session: it works, it cannot be reached or
\* rejects the login, or it rejects the message in send_message
Nets == {"ok", "down", "refused"}

\* [r for r in list if r.get('enabled', False)] is not empty
AnyEnabled(list) == \E i \in 1..Len(list) : list[i]

\* a session that does not read the keys of smtp_config
SmtpSendUnchecked(smtp, net) ==
  CASE net = "ok" -> "sent"
    [] net = "down" -> "error"
    [] OTHER -> "send_error"

\* the try block of send_email_notification / send_qq_notification: a missing
\* key raises KeyError before send_message; every exception is caught and logged
SmtpSend(smtp, net) ==
  IF smtp # "complete" THEN "error"
  ELSE CASE net = "ok" -> "sent"
         [] net = "down" -> "error"
         [] OTHER -> "send_error"

\* an email channel that does not filter its receivers by 'enabled'
send_email_any_receiver(cfg, net) ==
  IF ~cfg.email_enabled THEN "off"
  ELSE IF cfg.smtp_config = "none" \/ cfg.receivers = <<>> THEN "warned"
  ELSE SmtpSend(cfg.smtp_config, net)

\* an email channel whose failure is not caught
send_email_uncaught(cfg, net) ==
  IF ~cfg.email_enabled THEN "off"
  ELSE IF cfg.smtp_config = "none" \/ cfg.receivers = <<>> THEN "warned"
  ELSE IF ~AnyEnabled(cfg.receivers) THEN "warned"
  ELSE IF SmtpSend(cfg.smtp_config, net) = "sent" THEN "sent" ELSE "raised"

\* SingleTaskMonitor.send_email_notification
send_email_notification(cfg, net) ==
  IF ~cfg.email_enabled THEN "off"
  ELSE IF cfg.smtp_config = "none" \/ cfg.receivers = <<>> THEN "warned"
  ELSE IF ~AnyEnabled(cfg.receivers) THEN "warned"
  ELSE SmtpSend(cfg.smtp_config, net)

\* a QQ channel that does not look at the email channel's flag
send_qq_without_email_check(cfg, net) ==
  IF ~cfg.qq_enabled THEN "off"
  ELSE IF ~AnyEnabled(cfg.qq_emails) THEN "warned"
  ELSE SmtpSend(cfg.smtp_config, net)

\* SingleTaskMonitor.send_qq_notification
send_qq_notification(cfg, net) ==
  IF ~cfg.qq_enabled THEN "off"
  ELSE IF ~cfg.email_enabled THEN "warned"
  ELSE IF ~AnyEnabled(cfg.qq_emails) THEN "warned"
  ELSE SmtpSend(cfg.smtp_config, net)

\* SingleTaskMonitor.send_sms_notification: the send is two log lines
send_sms_notification(cfg) ==
  IF ~cfg.sms_enabled THEN "off"
  ELSE IF ~AnyEnabled(cfg.phone_numbers) THEN "warned"
  ELSE "sent"

\* an address list that takes every entry of the channel's list
all_entries(list) == [i \in 1..Len(list) |-> i]

\* [r for r in receivers if r.get('enabled', False)]: the entries (by their
\* place in the list) the message is addressed to
enabled_entries(list) ==
  LET F[i \in 0..Len(list)] ==
        IF i = 0 THEN <<>> ELSE IF list[i] THEN Append(F[i - 1], i) ELSE F[i - 1]
  IN  F[Len(list)]

\* the list a channel reads its recipients from
RecipientsOf(cfg, c) ==
  CASE c = "email" -> cfg.receivers
    [] c = "qq"    -> cfg.qq_emails
    [] OTHER       -> cfg.phone_numbers

\* the logger calls a send_*_notification makes on the way to its outcome: none
\* when the channel's flag is off, one warning when it is skipped later, one
\* info or error line after the SMTP session, two info lines for an SMS
LogLines(c, out) ==
  CASE out = "off" -> 0
    [] out = "raised" -> 0
    [] out = "sent" /\ c = "sms" -> 2
    [] OTHER -> 1

notifyFrame == <<storeVars, mainVars, schedVars, threadVars, ghostVars, last_status, budget, vocab,
                 dispatches, incomplete, notifications_ok, caught, fresp, fresult, query, ecfg>>

\* notify_status_change is called with a Changed transition
InitNotify ==
  /\ InitStorage(CapSys) /\ InitMonitor({}, 0, {})
  /\ InitConfig({}, [t \in Tasks |-> TRUE]) /\ InitNoFetch /\ InitNoQuery /\ InitNoEdit
  /\ ncfg \in NotificationConfigs
  /\ npc = "email"
  /\ nout = [c \in Channels |-> "-"]
  /\ nnet = [c \in Channels |-> "-"]
  /\ nto = [c \in Channels |-> <<>>]
  /\ nlog = [c \in Channels |-> 0]

\* one statement of notify_status_change: the call of a send_*_notification.
\* An exception it lets out would leave notify_status_change at once.
NotifyChannel(c, out, net, next) ==
  /\ npc = c
  /\ nout' = [nout EXCEPT ![c] = out]
  /\ nnet' = [nnet EXCEPT ![c] = IF out \in {"sent", "error", "send_error", "raised"} THEN net ELSE "-"]
  /\ nto' = [nto EXCEPT ![c] = IF out \in {"sent", "send_error"}
                                THEN enabled_entries(RecipientsOf(ncfg, c)) ELSE <<>>]
  /\ nlog' = [nlog EXCEPT ![c] = LogLines(c, out)]
  /\ npc' = IF out = "raised" THEN "raised" ELSE next
  /\ UNCHANGED <<ncfg, notifyFrame>>

NotifyEmail == \E net \in Nets : NotifyChannel("email", send_email_notification(ncfg, net), net, "qq")

NotifyQq == \E net \in Nets : NotifyChannel("qq", send_qq_notification(ncfg, net), net, "sms")

NotifySms == NotifyChannel("sms", send_sms_notification(ncfg), "ok", "done")

NextNotify ==
  \/ NotifyEmail
  \/ NotifyQq
  \/ NotifySms

SpecNotify == InitNotify /\ [][NextNotify]_vars

\* ---------------------------------------------- one call of get_current_status
StatusCodes == {200, 201, 204, 302, 404, 500}

\* the responses requests.post can yield; code 1 stands for every value of
\* 'code' other than 0,
\* and a payload without buyCarInfo.vid: .get('vid') gives Python's None
NoVid == "absent"

AllResponses ==
  [exc : BOOLEAN, status_code : StatusCodes, code : {0, 1}, has_data : BOOLEAN,
   vid : Vids \cup {NoVid}]

InitFetch ==
  /\ InitStorage(CapSys) /\ InitMonitor({}, 0, {})
  /\ InitConfig({}, [t \in Tasks |-> TRUE]) /\ InitNoNotify /\ InitNoQuery /\ InitNoEdit
  /\ fresp \in AllResponses
  /\ fresult = Pending

\* task t's monitor calls get_current_status and it returns
Fetch(t) ==
  /\ fresult = Pending
  /\ fresult' = GetCurrentStatus(t, fresp)
  /\ UNCHANGED <<storeVars, mainVars, schedVars, threadVars, ghostVars, last_status, budget, vocab,
                 dispatches, incomplete, notifications_ok, caught, ncfg, npc, nout, nnet, nto, nlog,
                 fresp, query, ecfg>>

NextFetch == \E t \in Tasks : Fetch(t)

SpecFetch == InitFetch /\ [][NextFetch]_vars

\* --------------------------------- the configuration editor (config_manager.py)
\* the fields of the 'sms' dict that add_task leaves empty ('provider' is "aliyun")
SmsFields == {"access_key_id", "access_key_secret", "sign_name", "template_code"}

\* the 'notifications' dict add_task gives a new task: smtp_server and
\* smtp_port are set, sender and password are "" (FALSE: empty)
TaskTemplate ==
  [email_enabled |-> FALSE, sender |-> FALSE, password |-> FALSE, receivers |-> <<>>,
   qq_enabled |-> FALSE, qq_emails |-> <<>>,
   sms_enabled |-> FALSE, sms_filled |-> {}, phone_numbers |-> <<>>]

editFrame == <<storeVars, mainVars, schedVars, threadVars, ghostVars, last_status, budget, vocab,
               dispatches, incomplete, notifications_ok, caught, ncfg, npc, nout, nnet, nto, nlog,
               fresp, fresult, query>>

\* a task was added and is open in configure_notifications
InitEditor ==
  /\ InitStorage(CapSys) /\ InitMonitor({}, 0, {})
  /\ InitConfig({}, [t \in Tasks |-> TRUE]) /\ InitNoNotify /\ InitNoFetch /\ InitNoQuery
  /\ ecfg = TaskTemplate

\* configure_email_notification: the port typed is a number or not (then the
\* method returns), a sender and a password are typed or left blank (blank
\* keeps the old value), and the add/edit/delete loop leaves the list `list`
ConfigureEmail(port_ok, sender, password, list) ==
  /\ ecfg' = IF ~port_ok THEN ecfg
             ELSE [ecfg EXCEPT !.sender = @ \/ sender,
                               !.password = @ \/ password,
                               !.receivers = list,
                               !.email_enabled = AnyEnabled(list) /\ (ecfg.sender \/ sender)]
  /\ UNCHANGED editFrame

\* configure_qq_notification: returns at once unless the email flag is set
ConfigureQq(list) ==
  /\ ecfg' = IF ~ecfg.email_enabled THEN ecfg
             ELSE [ecfg EXCEPT !.qq_emails = list, !.qq_enabled = AnyEnabled(list)]
  /\ UNCHANGED editFrame

\* configure_sms_notification: the fields in `typed` are typed, the others left blank
ConfigureSms(typed, list) ==
  /\ ecfg' = [ecfg EXCEPT !.sms_filled = @ \cup typed,
                          !.phone_numbers = list,
                          !.sms_enabled = AnyEnabled(list) /\ (ecfg.sms_filled \cup typed) = SmsFields]
  /\ UNCHANGED editFrame

NextEditor ==
  \/ \E port_ok \in BOOLEAN, sender \in BOOLEAN, password \in BOOLEAN, list \in RecipientLists :
       ConfigureEmail(port_ok, sender, password, list)
  \/ \E list \in RecipientLists : ConfigureQq(list)
  \/ \E typed \in SUBSET SmsFields, list \in RecipientLists : ConfigureSms(typed, list)

SpecEditor == InitEditor /\ [][NextEditor]_vars

\* ===================================================================== claims
Last(seq) == seq[Len(seq)]

\* the positions of the change-flagged records of a history
FlaggedAt(list) == {i \in 1..Len(list) : list[i].change_detected}

\* no thread is inside a cycle of task t, and the process is running
Idle(t) == mpc # "exit" /\ \A th \in Tasks : ~(pc[th] = "cycle" /\ job[th] = t)

\* ----------------------------------------------------------------------- C1
C1_BaselineStep ==
  \A t \in Tasks :
    /\ (last_status'[t] # last_status[t] /\ mpc' # "exit") =>
         \/ mpc = "initfetch" /\ mtask = t /\ last_status'[t] # None /\ last_status'[t] = lastOk'[t]
         \/ \E th \in Tasks : pc[th] = "cycle" /\ job[th] = t /\ cur[th] # None
                              /\ last_status'[t] = cur[th]
    /\ (fetchLog'[t] = Append(fetchLog[t], "fail")) =>
         /\ last_status'[t] = last_status[t]
         /\ get_latest_status(status_history', t) = get_latest_status(status_history, t)
    /\ (mpc = "initfetch" /\ mtask = t /\ mpc' = "init" /\ lastOk'[t] = None) =>
         last_status'[t] = last_status[t]
    /\ \A th \in Tasks :
         (pc[th] = "cycle" /\ job[th] = t /\ cur[th] # None /\ pc'[th] = "loop") =>
           /\ last_status'[t] # None
           /\ last_status'[t].order_status = cur[th].order_status
           /\ last_status'[t].order_status_name = cur[th].order_status_name

C2_Pair ==
  \A th \in Tasks :
    (pc[th] = "cycle" /\ step[th] = "setlast") =>
      /\ dispatches[job[th]] # <<>>
      /\ Last(dispatches[job[th]]) = <<prevOk[th], cur[th]>>

C2_Scenario ==
  \A t \in Tasks :
    (Idle(t) /\ fetchLog[t] = <<"A", "fail", "B">>) =>
      /\ dispatches[t] # <<>>
      /\ Last(dispatches[t]) = <<StatusDict(t, "A"), StatusDict(t, "B")>>

C2_ChangedStep ==
  \A th \in Tasks :
    (/\ pc[th] = "cycle" /\ step[th] = "detect"
     /\ prevOk[th] # None
     /\ cur[th].order_status # prevOk[th].order_status
     /\ step'[th] # "detect" /\ mpc' # "exit") => step'[th] = "save2"

\* C2: a successful fetch whose status differs from the task's most recent
\* earlier successful fetch takes the Changed branch and is notified as
\* (old, new) with old that earlier status, whatever failed fetches lie
\* between; the cycles [A, fail, B] end with the notification (A, B).
C2_ChangedAcrossFailures == [](C2_Pair /\ C2_Scenario) /\ [][C2_ChangedStep]_vars

C2_Witness ==
  /\ Idle(1) /\ pc[1] = "loop"
  /\ fetchLog[1] = <<"A", "fail", "B">>
  /\ Len(dispatches[1]) = 1

\* ----------------------------------------------------------------------- C3
C3_Polled(t) == Idle(t) /\ fetchLog[t] = <<"A", "A", "B", "B", "C">>

C3_TwoChanges(t) ==
  dispatches[t] = << <<StatusDict(t, "A"), StatusDict(t, "B")>>,
                     <<StatusDict(t, "B"), StatusDict(t, "C")>> >>

C4_FirstFetchInitial ==
  \A t \in Tasks :
    /\ (okCount[t] <= 1 /\ mpc # "exit") =>
         /\ dispatches[t] = <<>>
         /\ FlaggedAt(appendLog[t]) = {}
    /\ (okCount[t] = 1 /\ Idle(t)) =>
         /\ last_status[t] # None
         /\ last_status[t] = lastOk[t]

\* the construction-time fetch failed and a later cycle fetched the first status
C4_Witness ==
  /\ Idle(1) /\ pc[1] = "loop"
  /\ baseline0[1] = None
  /\ okCount[1] = 1
  /\ Len(fetchLog[1]) >= 2
  /\ last_status[1] # None
  /\ Len(appendLog[1]) = 1

\* ----------------------------------------------------------------------- C5
C5_Step ==
  \A th \in Tasks :
    (/\ pc[th] = "cycle" /\ step[th] = "detect"
     /\ last_status[job[th]] # None
     /\ step'[th] # "detect" /\ mpc' # "exit") =>
      IF /\ cur[th].order_status = last_status[job[th]].order_status
         /\ cur[th].order_status_name = last_status[job[th]].order_status_name
      THEN pc'[th] = "loop" /\ dispatches' = dispatches /\ status_history' = status_history
      ELSE step'[th] = "save2"

\* C5: with a baseline present, the cycle of a fetched status returns without
\* a notification exactly when order_status and order_status_name both equal
\* the baseline's, and goes on to the change record and notification otherwise.
C5_Classification == [][C5_Step]_vars

\* an equal status was passed over and a different one notified
C5_Witness ==
  /\ Idle(1) /\ pc[1] = "loop"
  /\ baseline0[1] = StatusDict(1, "A")
  /\ fetchLog[1] = <<"A", "B">>
  /\ dispatches[1] = << <<StatusDict(1, "A"), StatusDict(1, "B")>> >>

\* ----------------------------------------------------------------------- C6
\* C6: a task's list in the store never holds more than max_history_size
\* records, and once max_history_size or more records were saved for a task,
\* get_status_history(task, max_history_size) is the last max_history_size of
\* them in the order they were saved.
C6_CapAndRecent ==
  \A t \in Tasks :
    /\ Len(Hist(status_history, t)) <= max_history_size
    /\ Len(appendLog[t]) >= max_history_size =>
         get_status_history(status_history, t, max_history_size)
           = SubSeq(appendLog[t], Len(appendLog[t]) - max_history_size + 1, Len(appendLog[t]))

\* two records more than the cap were saved for a task: two were evicted
C6_Witness ==
  \E t \in Tasks :
    /\ Len(appendLog[t]) = max_history_size + 2
    /\ Len(Hist(status_history, t)) = max_history_size

\* ----------------------------------------------------------------------- C7
\* C7: at most one cycle of a given task is in progress at any time.
C7_OneCyclePerTask ==
  \A j \in Tasks : Cardinality({th \in Tasks : pc[th] = "cycle" /\ job[th] = j}) <= 1

\* ----------------------------------------------------------------------- C8
\* a request for task t's status is outstanding
FetchPending(t) ==
  \/ mpc = "initfetch" /\ mtask = t
  \/ \E th \in Tasks : pc[th] = "cycle" /\ job[th] = t /\ step[th] = "fetch"

\* C8: while a fetch of one task is pending, every other enabled task is
\* constructed or can be constructed at once.
C8_NoBlocking ==
  \A t \in enabled : FetchPending(t) =>
    \A u \in enabled \ {t} : u \in monitors \/ ENABLED ConstructBegin(u)

\* ----------------------------------------------------------------------- C9
\* C9: a stop that arrives while three task threads are in a cycle ends with
\* all three threads ended and with total_tasks = 3 in the statistics.
C9_StopMidCycle ==
  (mpc = "exit" /\ stopMid3) =>
    /\ \A th \in enabled : pc[th] = "killed"
    /\ stats = 3

\* ---------------------------------------------------------------------- C10
\* C10: when the statistics are reported after a stop request, every task
\* thread has left its polling loop.
C10_ReportAfterJoin ==
  (stopped /\ reports > 0) => aliveAtReport = {}

\* ---------------------------------------------------------------------- C11
\* the channel's send (send_message, or the SMS log lines) was invoked
Invoked(c) == nout[c] \in {"sent", "send_error"}

\* C11: with the QQ channel enabled and the email channel disabled,
\* notify_status_change invokes no QQ send, whatever qq_emails holds.
C11_NoQqWithoutEmail ==
  (ncfg # None /\ ncfg.qq_enabled /\ ~ncfg.email_enabled) => ~Invoked("qq")

\* the QQ channel had an enabled address and a working server, and was skipped
C11_Witness ==
  /\ npc = "done"
  /\ ncfg.qq_enabled /\ ~ncfg.email_enabled
  /\ AnyEnabled(ncfg.qq_emails) /\ ncfg.smtp_config = "complete"
  /\ nout["qq"] = "warned"

\* ---------------------------------------------------------------------- C12
\* the channel is effective-enabled: flag, transport parameters, a recipient
Effective(c) ==
  CASE c = "email" -> /\ ncfg.email_enabled /\ ncfg.smtp_config = "complete"
                      /\ AnyEnabled(ncfg.receivers)
    [] c = "qq"    -> /\ ncfg.qq_enabled /\ ncfg.smtp_config = "complete"
                      /\ AnyEnabled(ncfg.qq_emails)
    [] OTHER       -> ncfg.sms_enabled /\ AnyEnabled(ncfg.phone_numbers)

\* the channel is eligible: effective-enabled, the QQ channel also needing the
\* email channel effective-enabled
Eligible(c) == Effective(c) /\ (c = "qq" => Effective("email"))

Attempted(c) == nout[c] \in {"sent", "error", "send_error"}

Is2xx(code) == code >= 200 /\ code <= 299

C17_QqNeedsEffectiveEmail ==
  (ncfg # None /\ Invoked("qq")) => Effective("email")

\* C17 amended: the QQ send is invoked only if the email channel's flag is set
\* and its transport parameters are complete; the email channel need not have
\* an enabled receiver.
C17_QqNeedsEmailFlagAndTransport ==
  (ncfg # None /\ Invoked("qq")) => (ncfg.email_enabled /\ ncfg.smtp_config = "complete")

\* the QQ channel sent although the email channel has no enabled receiver
C17_Witness ==
  /\ npc = "done"
  /\ nout["qq"] = "sent"
  /\ ncfg.email_enabled /\ ~AnyEnabled(ncfg.receivers)
  /\ nout["email"] = "warned"

\* ---------------------------------------------------------------------- C13
C13_Alive ==
  \A th \in Tasks :
    (caught[th] > 0 /\ mpc # "exit") =>
      /\ pc[th] \in {"loop", "cycle"}
      /\ th \in jobs
      /\ (pc[th] = "loop" /\ budget > 0) => ENABLED RunPending(th, th)

C13_Step ==
  \A t \in Tasks :
    (caught'[t] = caught[t] + 1) =>
      /\ \E th \in Tasks : pc[th] = "cycle" /\ job[th] = t /\ pc'[th] = "loop"
      /\ jobs' = jobs
      /\ mpc' = mpc

\* C13: an exception raised inside a cycle is caught by monitor_task in that
\* cycle: the thread is back in its polling loop, the task's job stays
\* registered, the process goes on, and the thread can run the task's next cycle.
C13_CycleFaultContained == []C13_Alive /\ [][C13_Step]_vars

\* after a cycle that raised, the thread is in the fetch of a later cycle
C13_Witness ==
  /\ caught[1] = 1
  /\ pc[1] = "cycle" /\ job[1] = 1 /\ step[1] = "fetch"
  /\ Len(fetchLog[1]) >= 1

\* ---------------------------------------------------------------------- C14
\* C14: when an enabled task lacks a required field, the process does not end
\* of its own accord with a complete enabled task never started.
C14_IncompleteSkipped ==
  \A u \in enabled \ incomplete :
    (incomplete # {} /\ mpc = "exit" /\ ~stopped) => pc[u] # "unstarted"

\* ---------------------------------------------------------------------- C18
\* C18: with no enabled task the main thread constructs no monitor, makes no
\* request, starts no thread, registers no job and never waits in join; it can
\* only go on to the warning and the exit.
C18_NoTaskNoWork ==
  (enabled = {}) =>
    /\ mpc \in {"init", "exit"}
    /\ monitors = {} /\ jobs = {}
    /\ \A t \in Tasks : pc[t] = "unstarted" /\ fetchLog[t] = <<>> /\ okCount[t] = 0
    /\ status_history = EmptyStore
    /\ (mpc = "init") => ENABLED StartMonitoring
    /\ (mpc = "exit") => reports <= 1 /\ aliveAtReport = {}

C18_Witness ==
  /\ enabled = {}
  /\ mpc = "exit" /\ ~stopped
  /\ reports = 1 /\ stats = 0

\* ---------------------------------------------------------------------- C19
\* a save_status for task t has appended and not yet cut the list
SaveInProgress(t) ==
  \E th \in Tasks : pc[th] = "cycle" /\ job[th] = t /\ step[th] \in {"trunc1", "trunc2"}

\* C19: whenever no save for a task is in progress, the task's list holds
\* exactly the records saved for it, the oldest beyond the cap evicted.
C19_NoLostAppend ==
  \A t \in Tasks :
    (mpc # "exit" /\ ~SaveInProgress(t)) =>
      Hist(status_history, t) = Truncated(appendLog[t], max_history_size)

\* ---------------------------------------------------------------------- C20
Unflagged(list) == SelectSeq(list, LAMBDA r : ~r.change_detected)

Fetched(log) == SelectSeq(log, LAMBDA x : x # "fail")

\* C20 as stated: every successful fetch of a task, the construction-time one
\* included, has its record saved for the task.
C20_EveryFetchRecorded ==
  \A t \in Tasks : Idle(t) => Len(Unflagged(appendLog[t])) = okCount[t]

\* the number of entries of a sequence that satisfy Test
Count(seq, Test(_)) == Cardinality({i \in 1..Len(seq) : Test(seq[i])})

\* C20 amended: every successful fetch of a cycle has an unflagged record of
\* its status saved for the task; the construction-time fetch saves no record.
C20_CycleFetchRecorded ==
  \A t \in Tasks :
    /\ Idle(t) =>
         \A v \in Vids :
           Count(appendLog[t], LAMBDA r : ~r.change_detected /\ r.order_status = v)
             = Count(fetchLog[t], LAMBDA x : x = v)
    /\ (mpc # "exit" /\ fetchLog[t] = <<>>) => appendLog[t] = <<>>

C20_Witness ==
  /\ Idle(1) /\ pc[1] = "loop"
  /\ baseline0[1] # None
  /\ Len(Fetched(fetchLog[1])) = 2
  /\ Len(fetchLog[1]) = 3
  /\ Len(Unflagged(appendLog[1])) = 2

\* ---------------------------------------------------------------------- C21
\* C21: get_status_history(task, limit) with limit >= 0 returns the last
\* min(limit, length) records of the task's list, in the order they were
\* saved, and the empty list for a task without records.
C21_RecentLast ==
  (query.op = "recent") =>
    LET h == Hist(status_history, query.task)
        n == IF query.limit < Len(h) THEN query.limit ELSE Len(h)
    IN  query.result = SubSeq(h, Len(h) - n + 1, Len(h))

\* ---------------------------------------------------------------------- C22
C22_ClearStep ==
  /\ (query'.op = "clear") =>
       /\ Hist(status_history', query'.task) = <<>>
       /\ \A u \in Tasks \ {query'.task} : Hist(status_history', u) = Hist(status_history, u)
  /\ (query'.op = "clear_all") =>
       \A u \in Tasks : Hist(status_history', u) = <<>>

\* C22: clear_history(task_id) empties that task's list and leaves the list of
\* every other task as it was, whatever the task_id; clear_history() empties
\* every list.
C22_ClearOnlyThatTask == [][C22_ClearStep]_vars

\* ---------------------------------------------------------------------- C23
C23_Result ==
  (query.op = "statistics") =>
    LET r == query.result
        total[n \in 0..NumTasks] ==
          IF n = 0 THEN 0 ELSE total[n - 1] + Len(Hist(status_history, n))
    IN  /\ r.total_tasks = Cardinality({t \in Tasks : t \in DOMAIN status_history})
        /\ r.total_records = total[NumTasks]
        /\ DOMAIN r.task_details = DOMAIN status_history
        /\ \A t \in DOMAIN r.task_details :
             /\ r.task_details[t].record_count = Len(status_history[t])
             /\ r.task_details[t].latest_status = get_latest_status(status_history, t)

C23_ReadOnly == (query'.op = "statistics") => status_history' = status_history

\* C23: get_statistics() returns the number of tasks that have a list in the
\* store, the sum of the lengths of the lists, and for each of these tasks the
\* length of its list and what get_latest_status returns for it; the call
\* leaves the store as it was.
C23_StatisticsExact == []C23_Result /\ [][C23_ReadOnly]_vars

\* statistics of a store with a cleared task and a task with two records
C23_Witness ==
  /\ query.op = "statistics"
  /\ query.result.total_tasks = 2
  /\ query.result.total_records = 2
  /\ \E t \in DOMAIN query.result.task_details :
       /\ query.result.task_details[t].record_count = 0
       /\ query.result.task_details[t].latest_status = None

\* ---------------------------------------------------------------------- C24
\* C24: a MemoryStorage that was just constructed holds no record, whatever
\* the instance before it held: get_latest_status is None for every task and
\* get_statistics counts no task and no record; and the store of a
\* MultiTaskMonitor is empty until its construction is over.
C24_FreshStoreEmpty ==
  /\ (query.op = "new") =>
       /\ \A t \in Tasks : get_latest_status(status_history, t) = None
       /\ get_statistics(status_history).total_tasks = 0
       /\ get_statistics(status_history).total_records = 0
  /\ (enabled # {} /\ mpc \in {"init", "initfetch"}) =>
       /\ \A t \in Tasks : get_latest_status(status_history, t) = None
       /\ get_statistics(status_history).total_tasks = 0

\* a store was constructed after one that held three records
C24_Witness ==
  /\ query.op = "new"
  /\ query.dropped = 3

\* ---------------------------------------------------------------------- C25
\* C25: the cycle of a task is executed only by the thread that was started
\* for that task.
C25_OwnThreadOnly ==
  \A th \in Tasks : (pc[th] = "cycle") => job[th] = th

\* ---------------------------------------------------------------------- C26
\* thread th takes a step of its cycle
Acts(th) == pc[th] = "cycle" /\ (step'[th] # step[th] \/ pc'[th] # pc[th]) /\ mpc' # "exit"

\* the task's lists of saved records and of notifications, and its baseline
Kept(j, what) ==
  /\ ("records" \in what) => appendLog'[j] = appendLog[j]
  /\ ("dispatch" \in what) => dispatches'[j] = dispatches[j]
  /\ ("baseline" \in what) => last_status'[j] = last_status[j]

\* the step appends one record of the thread's fetched status to the task
AppendsRecord(th, flag) ==
  LET j == job[th] IN
    /\ Len(appendLog'[j]) = Len(appendLog[j]) + 1
    /\ SubSeq(appendLog'[j], 1, Len(appendLog[j])) = appendLog[j]
    /\ Last(appendLog'[j]).order_status = cur[th].order_status
    /\ Last(appendLog'[j]).order_status_name = cur[th].order_status_name
    /\ Last(appendLog'[j]).change_detected = flag

C26_Step ==
  \A th \in Tasks : Acts(th) =>
    LET j == job[th]
        all == {"records", "dispatch", "baseline"}
    IN  CASE step[th] = "fetch" ->
               /\ Kept(j, all)
               /\ IF cur'[th] # None THEN step'[th] = "save1" ELSE pc'[th] = "loop"
          [] step[th] = "save1" ->
               /\ AppendsRecord(th, FALSE) /\ Kept(j, {"dispatch", "baseline"})
               /\ step'[th] \in {"trunc1", "detect"}
          [] step[th] = "trunc1" -> Kept(j, all) /\ step'[th] = "detect"
          [] step[th] = "detect" ->
               /\ Kept(j, all)
               /\ IF Transition(last_status[j], cur[th]) = "Changed"
                  THEN step'[th] = "save2"
                  ELSE step'[th] = "init" \/ pc'[th] = "loop"
          [] step[th] = "init" -> Kept(j, {"records", "dispatch"}) /\ pc'[th] = "loop"
          [] step[th] = "save2" ->
               /\ AppendsRecord(th, TRUE) /\ Kept(j, {"dispatch", "baseline"})
               /\ step'[th] \in {"trunc2", "notify"}
          [] step[th] = "trunc2" -> Kept(j, all) /\ step'[th] = "notify"
          [] step[th] = "notify" ->
               /\ dispatches'[j] = Append(dispatches[j], <<last_status[j], cur[th]>>)
               /\ Kept(j, {"records", "baseline"})
               /\ step'[th] = "setlast" \/ pc'[th] = "loop"
          [] step[th] = "setlast" ->
               /\ last_status'[j] = cur[th]
               /\ Kept(j, {"records", "dispatch"}) /\ pc'[th] = "loop"
          [] OTHER -> FALSE

C26_Totals ==
  \A t \in Tasks : Idle(t) =>
    /\ Len(Unflagged(appendLog[t])) = Len(Fetched(fetchLog[t]))
    /\ Cardinality(FlaggedAt(appendLog[t])) = Len(dispatches[t])

\* C26: a cycle whose fetch succeeded appends one unflagged record of the
\* fetched status; if the status differs from the baseline it then appends a
\* flagged record of the same status, then calls notify_status_change, then
\* sets the baseline; a first-status or unchanged cycle appends nothing more
\* and notifies nothing.
C26_CycleOrder == [][C26_Step]_vars /\ []C26_Totals

\* a baseline A, then a cycle that fetched B: records B, B flagged, one notification
C26_Witness ==
  /\ Idle(1) /\ pc[1] = "loop"
  /\ baseline0[1] = StatusDict(1, "A")
  /\ fetchLog[1] = <<"A", "B">>
  /\ Len(appendLog[1]) = 3 /\ FlaggedAt(appendLog[1]) = {3}
  /\ dispatches[1] = << <<StatusDict(1, "A"), StatusDict(1, "B")>> >>
  /\ last_status[1] = StatusDict(1, "B")

\* ---------------------------------------------------------------------- C27
\* C27: no transition of a task is notified twice: two notifications of a
\* task that follow each other are never of the same (old, new) pair.
C27_AtMostOnce ==
  \A t \in Tasks : \A i \in 1..(Len(dispatches[t]) - 1) :
    dispatches[t][i] # dispatches[t][i + 1]

\* ---------------------------------------------------------------------- C28
C28_Step ==
  /\ \A th \in Tasks : Acts(th) =>
       \A u \in Tasks \ {job[th]} :
         /\ Hist(status_history', u) = Hist(status_history, u)
         /\ appendLog'[u] = appendLog[u]
         /\ last_status'[u] = last_status[u]
         /\ dispatches'[u] = dispatches[u]
  /\ \A t \in Tasks :
       (fetchLog'[t] = Append(fetchLog[t], "fail")) =>
         /\ \A u \in Tasks : Hist(status_history', u) = Hist(status_history, u)
         /\ last_status' = last_status

\* C28: a step of a cycle of one task leaves the list, the baseline and the
\* notifications of every other task as they were, whichever thread runs the
\* cycle; a cycle whose fetch failed changes no list and no baseline at all.
C28_CycleFrame == [][C28_Step]_vars

\* task t was notified of a change while task u, whose own fetch failed, still
\* has the baseline of its construction and no record
C28_Witness ==
  \E t \in Tasks, u \in Tasks :
    /\ t # u /\ Idle(t) /\ Idle(u)
    /\ Len(dispatches[t]) = 1 /\ last_status[t] = lastOk[t]
    /\ fetchLog[u] = <<"fail">>
    /\ last_status[u] # None /\ last_status[u] = baseline0[u]
    /\ last_status[u].order_status # last_status[t].order_status
    /\ Hist(status_history, u) = <<>>

\* ---------------------------------------------------------------------- C29
\* C29: a monitor exists only for an enabled task and no request is ever made
\* for a task that is not enabled; when the main thread waits in join every
\* enabled task has its monitor and its started thread; and the process does
\* not end of its own accord before every enabled task with all its fields
\* has had its thread started.
C29_OneMonitorPerEnabledTask ==
  /\ monitors \subseteq enabled
  /\ \A t \in Tasks \ enabled :
       /\ pc[t] = "unstarted" /\ ~FetchPending(t)
       /\ fetchLog[t] = <<>> /\ baseline0[t] = None /\ Hist(status_history, t) = <<>>
  /\ (mpc = "join") =>
       /\ monitors = enabled
       /\ \A t \in enabled : pc[t] # "unstarted"
  /\ (mpc = "exit" /\ ~stopped) =>
       \A t \in enabled \ incomplete : pc[t] # "unstarted"

\* ---------------------------------------------------------------------- C30
\* the calls of monitor_task made so far in a run of SpecTask
CyclesStarted == MaxFetchesTask - budget

C30_Requests ==
  (mpc # "exit") =>
    LET answered[n \in 0..NumTasks] ==
          IF n = 0 THEN 0 ELSE answered[n - 1] + Len(fetchLog[n])
        pending == Cardinality({th \in Tasks : pc[th] = "cycle" /\ step[th] = "fetch"})
    IN  answered[NumTasks] + pending = CyclesStarted

C30_Step ==
  /\ \A th \in Tasks :
       (Acts(th) /\ step[th] = "fetch" /\ cur'[th] = None) =>
         /\ fetchLog'[job[th]] = Append(fetchLog[job[th]], "fail")
         /\ pc'[th] = "loop"
         /\ budget' = budget
  /\ \A t \in Tasks :
       (Len(fetchLog'[t]) > Len(fetchLog[t])) => Len(fetchLog'[t]) = Len(fetchLog[t]) + 1
  /\ (mpc = "initfetch" /\ mpc' # "exit" /\ mpc' # mpc) =>
       mpc' = "init" /\ mtask \in monitors'

\* C30: every call of get_current_status makes one request and gets one
\* answer: the requests answered and outstanding are as many as the cycles
\* started; a failed fetch ends its cycle, the thread goes back to the
\* scheduler loop, and a failed construction-time fetch is not repeated.
C30_OneRequestPerFetch == []C30_Requests /\ [][C30_Step]_vars

\* a cycle's fetch failed and the next cycle fetched
C30_Witness ==
  /\ pc[1] = "loop" /\ Idle(1)
  /\ fetchLog[1] = <<"fail", "A">>
  /\ CyclesStarted = 2

\* ---------------------------------------------------------------------- C33
\* C33: when notify_status_change has returned, each of the three channels
\* has written at least one log line about its outcome.
C33_EveryChannelLogged ==
  (npc = "done") => \A c \in Channels : nlog[c] >= 1

\* ---------------------------------------------------------------------- C36
\* C36: a send that is invoked is addressed to exactly the entries of the
\* channel's list whose 'enabled' is true, in the order of the list; a channel
\* whose send is not invoked addresses nobody.
C36_ExactRecipients ==
  \A c \in Channels :
    (ncfg # None) =>
      LET list == RecipientsOf(ncfg, c)
          to   == nto[c]
      IN  IF Invoked(c)
          THEN /\ \A i \in 1..Len(list) : (\E k \in 1..Len(to) : to[k] = i) <=> list[i]
               /\ \A k \in 1..Len(to) : to[k] \in 1..Len(list)
               /\ \A k \in 1..(Len(to) - 1) : to[k] < to[k + 1]
          ELSE to = <<>>

\* the email went to the second receiver only, the QQ message to both addresses
C36_Witness ==
  /\ npc = "done"
  /\ ncfg.receivers = <<FALSE, TRUE>> /\ nout["email"] = "sent" /\ nto["email"] = <<2>>
  /\ ncfg.qq_emails = <<TRUE, TRUE>> /\ nout["qq"] = "sent" /\ nto["qq"] = <<1, 2>>

\* ---------------------------------------------------------------------- C37
\* C37: get_current_status never returns a status dict without a status: a
\* response whose payload has no vid gives None.
C37_NoAbsentStatus ==
  (fresult # Pending /\ fresult # None) => fresult.order_status # NoVid

\* ---------------------------------------------------------------------- C32
\* C32: in the editor, a channel whose flag is set has its transport
\* parameters complete (sender and password for email and, borrowed, for QQ;
\* the five fields of the SMS service) and an enabled entry in its list.
C32_EnabledMeansEffective ==
  (ecfg # None) =>
    /\ ecfg.email_enabled =>
         ecfg.sender /\ ecfg.password /\ AnyEnabled(ecfg.receivers)
    /\ ecfg.qq_enabled =>
         ecfg.sender /\ ecfg.password /\ AnyEnabled(ecfg.qq_emails)
    /\ ecfg.sms_enabled =>
         ecfg.sms_filled = SmsFields /\ AnyEnabled(ecfg.phone_numbers)

\* ---------------------------------------------------------------------- C38
\* C38: in the editor, the QQ channel's flag is never set while the email
\* channel's flag is not.
C38_QqFlagNeedsEmailFlag ==
  (ecfg # None) => (ecfg.qq_enabled => ecfg.email_enabled)

\* ---------------------------------------------------------------------- C31
C31_Step ==
  \A t \in Tasks :
    (Hist(status_history', t) # Hist(status_history, t) /\ mpc' # "exit") =>
      LET old == Hist(status_history, t)
          new == Hist(status_history', t)
      IN  \E k \in 0..Len(old) :
            LET kept == SubSeq(old, k + 1, Len(old)) IN
              \/ new = kept /\ appendLog'[t] = appendLog[t]
              \/ new = kept /\ appendLog'[t] = <<>>
              \/ /\ Len(appendLog'[t]) = Len(appendLog[t]) + 1
                 /\ new = Append(kept, Last(appendLog'[t]))

\* C31: every change of a task's list keeps a suffix of the list as it was,
\* records and order untouched, and adds at most the record being saved.
C31_AppendOnly == [][C31_Step]_vars

\* ---------------------------------------------------------------------- C34
\* C34: whenever no cycle of a task is in progress and the task has records,
\* the status of get_latest_status(task) is the status of the task's baseline.
C34_LatestIsBaseline ==
  \A t \in Tasks :
    (Idle(t) /\ Hist(status_history, t) # <<>>) =>
      /\ last_status[t] # None
      /\ get_latest_status(status_history, t).order_status = last_status[t].order_status
      /\ get_latest_status(status_history, t).order_status_name = last_status[t].order_status_name

\* ---------------------------------------------------------------------- C35
\* the cycles of task t that have saved their change record and not yet
\* called notify_status_change
AboutToNotify(t) == {th \in Tasks : pc[th] = "cycle" /\ job[th] = t /\ step[th] = "notify"}

\* C35: as long as no record of a task was evicted, the change-flagged records
\* in its list are as many as the calls of notify_status_change for it, plus
\* the cycles that are between the two; with no cycle in progress the two
\* numbers are equal.
C35_FlaggedEqualsDispatches ==
  \A t \in Tasks :
    (mpc # "exit" /\ Len(appendLog[t]) <= max_history_size) =>
      Cardinality(FlaggedAt(Hist(status_history, t)))
        = Len(dispatches[t]) + Cardinality(AboutToNotify(t))

\* two changes were notified and the four records of their cycles are all kept
C35_Witness ==
  /\ Idle(1) /\ pc[1] = "loop"
  /\ Len(dispatches[1]) = 2
  /\ Len(Hist(status_history, 1)) = 4
  /\ Len(appendLog[1]) = 4
  /\ FlaggedAt(Hist(status_history, 1)) = {2, 4}

====
